---- MODULE Spec2Model ----
(***************************************************************************)
(* Model of ts/packages/anchor/src/coder/borsh/instruction.ts:             *)
(* BorshInstructionCoder (constructor, encode, decode, format) and         *)
(* InstructionFormatter.                                                   *)
(*                                                                         *)
(* Representation.  Identifiers that the code case-converts (instruction,  *)
(* account, field and variant names) are sequences of one-character        *)
(* strings; rendered text is a TLA+ string.  JavaScript values are tagged  *)
(* records: [num |-> n], [null |-> TRUE], [arr |-> <<v...>>],              *)
(* [obj |-> <<[k |-> key, v |-> value], ...>>] (keys in insertion order),  *)
(* and Undefined.  IDL types are [prim |-> "u8"], [vec |-> T],             *)
(* [option |-> T], [defined |-> "Name"], [array |-> T, len |-> n].         *)
(***************************************************************************)
EXTENDS Integers, Sequences, FiniteSets, TLC

VARIABLES
    idl,                  \* the schema handed to the constructor
    constructed,          \* "no" | "ok" | "failed" (the constructor threw)
    ixLayout,             \* Map<string, Layout>: sequence of [k, v] entries
    discriminatorLayouts, \* Map<string, {layout, name}> keyed by base58 text
    ixDiscriminator,      \* Map<string, Buffer>
    discriminatorLength,  \* [undef |-> TRUE] or [num |-> n]
    call,                 \* the last public call and its arguments
    ret                   \* what that call returned or threw

vars == <<idl, constructed, ixLayout, discriminatorLayouts, ixDiscriminator,
          discriminatorLength, call, ret>>

----------------------------------------------------------------------------
(* Characters and strings *)

LowerChars == <<"a","b","c","d","e","f","g","h","i","j","k","l","m",
                "n","o","p","q","r","s","t","u","v","w","x","y","z">>
UpperChars == <<"A","B","C","D","E","F","G","H","I","J","K","L","M",
                "N","O","P","Q","R","S","T","U","V","W","X","Y","Z">>

IsLowerChar(c) == \E i \in 1..26 : LowerChars[i] = c
IsUpperChar(c) == \E i \in 1..26 : UpperChars[i] = c

toUpperCase(c) ==
    IF IsLowerChar(c) THEN UpperChars[CHOOSE i \in 1..26 : LowerChars[i] = c]
    ELSE c

toLowerCase(c) ==
    IF IsUpperChar(c) THEN LowerChars[CHOOSE i \in 1..26 : UpperChars[i] = c]
    ELSE c

LowerAll(s) == [i \in 1..Len(s) |-> toLowerCase(s[i])]

RECURSIVE Str(_)
\* the text of a character sequence
Str(s) == IF s = <<>> THEN "" ELSE s[1] \o Str(Tail(s))

RECURSIVE JoinText(_, _)
\* Array.prototype.join on an array of strings
JoinText(parts, sep) ==
    IF parts = <<>> THEN ""
    ELSE IF Len(parts) = 1 THEN parts[1]
    ELSE parts[1] \o sep \o JoinText(Tail(parts), sep)

DigitText == <<"0","1","2","3","4","5","6","7","8","9">>

RECURSIVE NumberToString(_)
\* Number.prototype.toString for a non-negative integer
NumberToString(n) ==
    IF n < 10 THEN DigitText[n + 1]
    ELSE NumberToString(n \div 10) \o DigitText[(n % 10) + 1]

RECURSIVE StripLeading(_, _)
StripLeading(s, c) ==
    IF s # <<>> /\ s[1] = c THEN StripLeading(Tail(s), c) ELSE s

RECURSIVE StripTrailing(_, _)
StripTrailing(s, c) ==
    IF s # <<>> /\ s[Len(s)] = c
    THEN StripTrailing(SubSeq(s, 1, Len(s) - 1), c) ELSE s

----------------------------------------------------------------------------
(* camelcase (npm), on letters and the separator "_" *)

RECURSIVE preserveCamelCase(_, _, _, _, _, _)
\* inserts "-" at lower->Upper and at UPPER->Upper-lower boundaries
preserveCamelCase(s, i, out, lastLower, lastUpper, lastLastUpper) ==
    IF i > Len(s) THEN out
    ELSE LET c == s[i] IN
         IF lastLower /\ IsUpperChar(c)
         THEN preserveCamelCase(s, i + 1, out \o <<"-", c>>,
                                FALSE, TRUE, lastUpper)
         ELSE IF lastUpper /\ lastLastUpper /\ IsLowerChar(c)
         THEN preserveCamelCase(s, i + 1,
                  SubSeq(out, 1, Len(out) - 1) \o <<"-", out[Len(out)], c>>,
                  TRUE, FALSE, FALSE)
         ELSE preserveCamelCase(s, i + 1, Append(out, c),
                                IsLowerChar(c), IsUpperChar(c), lastUpper)

IsSeparator(c) == c \in {"_", "-", ".", " "}

RECURSIVE StripLeadingSeparators(_)
StripLeadingSeparators(s) ==
    IF s # <<>> /\ IsSeparator(s[1]) THEN StripLeadingSeparators(Tail(s))
    ELSE s

RECURSIVE postProcess(_, _)
\* each run of separators is dropped and the character after it upper-cased
\* (afterSep: the previous character was a separator)
postProcess(s, afterSep) ==
    IF s = <<>> THEN <<>>
    ELSE IF IsSeparator(s[1]) THEN postProcess(Tail(s), TRUE)
    ELSE <<IF afterSep THEN toUpperCase(s[1]) ELSE s[1]>>
         \o postProcess(Tail(s), FALSE)

camelCaseOpt(input, pascalCase) ==
    IF Len(input) = 0 THEN <<>>
    ELSE IF Len(input) = 1
    THEN <<IF pascalCase THEN toUpperCase(input[1])
           ELSE toLowerCase(input[1])>>
    ELSE LET hasUpperCase == input # LowerAll(input)
             s1 == IF hasUpperCase
                   THEN preserveCamelCase(input, 1, <<>>, FALSE, FALSE, FALSE)
                   ELSE input
             s2 == StripLeadingSeparators(s1)
             s3 == LowerAll(s2)
             s4 == IF pascalCase /\ s3 # <<>>
                   THEN <<toUpperCase(s3[1])>> \o Tail(s3)
                   ELSE s3
         IN  postProcess(s4, FALSE)

camelCase(input) == camelCaseOpt(input, FALSE)

----------------------------------------------------------------------------
(* snake-case (npm): split on case boundaries, strip non-alphanumerics,     *)
(* lower-case, join with "_"                                                *)

IsAlnum(c) == IsLowerChar(c) \/ IsUpperChar(c)

\* a word boundary lies before position i of s
SplitBefore(s, i) ==
    /\ i > 1
    /\ \/ IsLowerChar(s[i - 1]) /\ IsUpperChar(s[i])
       \/ /\ IsUpperChar(s[i - 1]) /\ IsUpperChar(s[i])
          /\ i < Len(s) /\ IsLowerChar(s[i + 1])

RECURSIVE SplitWords(_, _)
\* s with "_" inserted at the word boundaries and in place of every
\* non-alphanumeric character
SplitWords(s, i) ==
    IF i > Len(s) THEN <<>>
    ELSE (IF SplitBefore(s, i) THEN <<"_">> ELSE <<>>)
         \o <<IF IsAlnum(s[i]) THEN s[i] ELSE "_">>
         \o SplitWords(s, i + 1)

RECURSIVE CollapseRuns(_)
CollapseRuns(s) ==
    IF Len(s) < 2 THEN s
    ELSE IF s[1] = "_" /\ s[2] = "_" THEN CollapseRuns(Tail(s))
    ELSE <<s[1]>> \o CollapseRuns(Tail(s))

snakeCase(input) ==
    LowerAll(StripTrailing(StripLeading(
        CollapseRuns(SplitWords(input, 1)), "_"), "_"))

----------------------------------------------------------------------------
(* sentenceCase: a space before every capital, first character upper-cased *)

RECURSIVE SpaceCapitals(_)
SpaceCapitals(s) ==
    IF s = <<>> THEN <<>>
    ELSE (IF IsUpperChar(s[1]) THEN <<" ", s[1]>> ELSE <<s[1]>>)
         \o SpaceCapitals(Tail(s))

sentenceCase(field) ==
    LET result == SpaceCapitals(field)
    IN  IF result = <<>> THEN <<>>
        ELSE <<toUpperCase(result[1])>> \o Tail(result)

----------------------------------------------------------------------------
(* bs58.encode: base-x's digit-array conversion *)

Base58Alphabet ==
    <<"1","2","3","4","5","6","7","8","9","A","B","C","D","E","F","G","H",
      "J","K","L","M","N","P","Q","R","S","T","U","V","W","X","Y","Z","a",
      "b","c","d","e","f","g","h","i","j","k","m","n","o","p","q","r","s",
      "t","u","v","w","x","y","z">>

RECURSIVE CarryDigits(_)
\* the base-58 digits of a carry, most significant first
CarryDigits(carry) ==
    IF carry = 0 THEN <<>>
    ELSE Append(CarryDigits(carry \div 58), carry % 58)

RECURSIVE MulAdd(_, _, _)
\* digits * 256 + carry, walking from the least significant digit (index i)
MulAdd(digits, i, carry) ==
    IF i = 0 THEN CarryDigits(carry) \o digits
    ELSE LET c == carry + 256 * digits[i]
         IN  MulAdd([digits EXCEPT ![i] = c % 58], i - 1, c \div 58)

RECURSIVE Base58Digits(_, _)
Base58Digits(bytes, digits) ==
    IF bytes = <<>> THEN digits
    ELSE Base58Digits(Tail(bytes), MulAdd(digits, Len(digits), bytes[1]))

RECURSIVE LeadingZeroes(_)
LeadingZeroes(bytes) ==
    IF bytes # <<>> /\ bytes[1] = 0 THEN 1 + LeadingZeroes(Tail(bytes)) ELSE 0

bs58encode(source) ==
    LET zeroes == LeadingZeroes(source)
        digits == Base58Digits(SubSeq(source, zeroes + 1, Len(source)), <<>>)
    IN  Str([i \in 1..zeroes |-> "1"])
        \o Str([i \in 1..Len(digits) |-> Base58Alphabet[digits[i] + 1]])

----------------------------------------------------------------------------
(* JavaScript values and Maps *)

Undefined == [undef |-> TRUE]
Null == [null |-> TRUE]
Num(n) == [num |-> n]
Arr(elems) == [arr |-> elems]
Obj(entries) == [obj |-> entries]
Buffer(bytes) == [buf |-> bytes]

\* own keys of an object, in insertion order
ObjectKeys(o) == [i \in 1..Len(o.obj) |-> o.obj[i].k]

\* o[key]
ObjectGet(o, key) ==
    IF \E i \in 1..Len(o.obj) : o.obj[i].k = key
    THEN o.obj[CHOOSE i \in 1..Len(o.obj) : o.obj[i].k = key].v
    ELSE Undefined

\* a Map is its sequence of [k, v] entries in insertion order
MapHas(m, key) == \E i \in 1..Len(m) : m[i].k = key

MapGet(m, key) ==
    IF MapHas(m, key)
    THEN m[CHOOSE i \in 1..Len(m) : m[i].k = key].v
    ELSE Undefined

MapSet(m, key, val) ==
    IF MapHas(m, key)
    THEN [i \in 1..Len(m) |-> IF m[i].k = key THEN [k |-> key, v |-> val]
                               ELSE m[i]]
    ELSE Append(m, [k |-> key, v |-> val])

\* Buffer.subarray(start, end) with 0 <= start; an undefined bound is the
\* default one (0 for start, the length for end)
subarray(buf, start, end) ==
    LET s == IF start = Undefined THEN 0
             ELSE IF start.num > Len(buf) THEN Len(buf) ELSE start.num
        e == IF end = Undefined THEN Len(buf)
             ELSE IF end.num > Len(buf) THEN Len(buf) ELSE end.num
    IN  SubSeq(buf, s + 1, e)

----------------------------------------------------------------------------
(* IDL types *)

Prim(name) == [prim |-> name]
Vec(T) == [vec |-> T]
Option(T) == [option |-> T]
Defined(name) == [defined |-> name]
Array(T, n) == [array |-> T, len |-> n]

IsPrim(T) == "prim" \in DOMAIN T
IsVec(T) == "vec" \in DOMAIN T
IsOption(T) == "option" \in DOMAIN T
IsDefined(T) == "defined" \in DOMAIN T
IsArray(T) == "array" \in DOMAIN T

Field(name, type) == [name |-> name, type |-> type]

----------------------------------------------------------------------------
(* The compiled layouts (IdlCoder.fieldLayout and borsh.struct, which are   *)
(* not part of instruction.ts): the wire format of section 4.1              *)

\* idl.types ?? []
TypesOrEmpty(types) == IF types = Undefined THEN <<>> ELSE types.arr

RECURSIVE Resolvable(_, _)
\* every defined(name) reached from T names exactly one type definition
Resolvable(T, types) ==
    IF IsPrim(T) THEN TRUE
    ELSE IF IsVec(T) THEN Resolvable(T.vec, types)
    ELSE IF IsOption(T) THEN Resolvable(T.option, types)
    ELSE IF IsArray(T) THEN Resolvable(T.array, types)
    ELSE Cardinality({i \in 1..Len(types) : types[i].name = T.defined}) = 1

\* unsigned 32-bit little-endian
U32LE(n) == <<n % 256, (n \div 256) % 256, (n \div 65536) % 256,
              (n \div 16777216) % 256>>

RECURSIVE EncodeType(_, _)
RECURSIVE EncodeElems(_, _)
\* the bytes of value v under the layout of type T
EncodeType(T, v) ==
    IF IsPrim(T) THEN <<v.num>>
    ELSE IF IsOption(T)
    THEN IF v = Null THEN <<0>> ELSE <<1>> \o EncodeType(T.option, v)
    ELSE IF IsVec(T) THEN U32LE(Len(v.arr)) \o EncodeElems(T.vec, v.arr)
    ELSE EncodeElems(T.array, v.arr)

EncodeElems(T, elems) ==
    IF elems = <<>> THEN <<>>
    ELSE EncodeType(T, elems[1]) \o EncodeElems(T, Tail(elems))

DecodeFail == [ok |-> FALSE]
DecodeOk(v, rest) == [ok |-> TRUE, val |-> v, rest |-> rest]

RECURSIVE DecodeType(_, _)
RECURSIVE DecodeElems(_, _, _, _)
\* decodes one value of type T from the front of bytes
DecodeType(T, bytes) ==
    IF IsPrim(T)
    THEN IF bytes = <<>> THEN DecodeFail
         ELSE DecodeOk(Num(bytes[1]), Tail(bytes))
    ELSE IF IsOption(T)
    THEN IF bytes = <<>> THEN DecodeFail
         ELSE IF bytes[1] = 0 THEN DecodeOk(Null, Tail(bytes))
         ELSE IF bytes[1] = 1 THEN DecodeType(T.option, Tail(bytes))
         ELSE DecodeFail
    ELSE IF IsVec(T)
    THEN IF Len(bytes) < 4 THEN DecodeFail
         \* a count of 2^24 or more exceeds every buffer of the model
         ELSE IF bytes[4] # 0 THEN DecodeFail
         ELSE DecodeElems(T.vec,
                  bytes[1] + 256 * bytes[2] + 65536 * bytes[3],
                  SubSeq(bytes, 5, Len(bytes)), <<>>)
    ELSE DecodeElems(T.array, T.len, bytes, <<>>)

DecodeElems(T, n, bytes, acc) ==
    IF n = 0 THEN DecodeOk(Arr(acc), bytes)
    ELSE LET r == DecodeType(T, bytes)
         IN  IF r.ok THEN DecodeElems(T, n - 1, r.rest, Append(acc, r.val))
             ELSE DecodeFail

\* borsh.struct(fieldLayouts, name)
StructLayout(fields, name) == [fields |-> fields, property |-> name]

RECURSIVE LayoutEncode(_, _)
\* layout.encode(ix, buffer): the bytes written for the object ix
LayoutEncode(fields, ix) ==
    IF fields = <<>> THEN <<>>
    ELSE EncodeType(fields[1].type, ObjectGet(ix, fields[1].name))
         \o LayoutEncode(Tail(fields), ix)

RECURSIVE LayoutDecode(_, _, _)
\* layout.decode(data): the decoded object, or a failure on a malformed body
LayoutDecode(fields, bytes, acc) ==
    IF fields = <<>> THEN DecodeOk(Obj(acc), bytes)
    ELSE LET r == DecodeType(fields[1].type, bytes)
         IN  IF r.ok
             THEN LayoutDecode(Tail(fields), r.rest,
                      Append(acc, [k |-> fields[1].name, v |-> r.val]))
             ELSE DecodeFail

----------------------------------------------------------------------------
(* sighash *)

SIGHASH_GLOBAL_NAMESPACE == "global"

\* sha256.digest(preimage).subarray(0, 8), tabulated for the preimages of
\* the instruction names of the model
Sha256Prefix8(preimage) ==
    CASE preimage = "global:go" -> <<200, 2, 253, 91, 253, 62, 157, 66>>
      [] preimage = "global:do_it" -> <<220, 100, 3, 140, 58, 153, 21, 93>>
      [] preimage = "global:init" -> <<220, 59, 207, 236, 108, 250, 47, 100>>

sighash(nameSpace, ixName) ==
    LET name == snakeCase(ixName)
        preimage == nameSpace \o ":" \o Str(name)
    IN  Sha256Prefix8(preimage)

----------------------------------------------------------------------------
(* BorshInstructionCoder *)

\* an instruction definition of the schema; discriminant is Undefined or
\* [value |-> bytes]; accounts is a sequence of account items
IdlInstruction(name, discriminant, args, accounts) ==
    [name |-> name, discriminant |-> discriminant, args |-> args,
     accounts |-> accounts]

Discriminant(bytes) == [value |-> bytes]

\* the constructor throws inside IdlCoder.fieldLayout when an argument
\* refers to a type the schema does not define
LayoutsCompile(schema) ==
    \A i \in 1..Len(schema.instructions) :
        \A j \in 1..Len(schema.instructions[i].args) :
            Resolvable(schema.instructions[i].args[j].type,
                       TypesOrEmpty(schema.types))

RECURSIVE parseIxLayoutFrom(_, _)
\* new Map(ixLayouts): one entry per instruction, keyed by camelCase(ix.name)
parseIxLayoutFrom(instructions, m) ==
    IF instructions = <<>> THEN m
    ELSE LET ix == instructions[1]
             name == camelCase(ix.name)
         IN  parseIxLayoutFrom(Tail(instructions),
                 MapSet(m, name, StructLayout(ix.args, name)))

parseIxLayout(schema) == parseIxLayoutFrom(schema.instructions, <<>>)

\* JavaScript truthiness of a number-or-undefined
TruthyNumber(n) == n # Undefined /\ n.num # 0

\* the discriminator bytes the constructor gives to ix
DiscriminatorOf(ix) ==
    IF ix.discriminant # Undefined THEN ix.discriminant.value
    ELSE sighash(SIGHASH_GLOBAL_NAMESPACE, ix.name)

\* the length the constructor records for ix
DiscriminatorLengthOf(ix) ==
    IF ix.discriminant # Undefined THEN Len(ix.discriminant.value) ELSE 8

\* the discriminator-length check of one forEach iteration throws
LengthMismatch(thisLength, discLength) ==
    TruthyNumber(thisLength) /\ thisLength.num # discLength

\* one iteration of idl.instructions.forEach in the constructor;
\* st = [layouts, dl, ixd, len, threw]
ConstructorStep(st, ix) ==
    IF st.threw THEN st
    ELSE LET disc == DiscriminatorOf(ix)
             discLength == DiscriminatorLengthOf(ix)
             dl == MapSet(st.dl, bs58encode(disc),
                          [layout |-> MapGet(st.layouts, ix.name),
                           name |-> ix.name])
             ixd == MapSet(st.ixd, ix.name, Buffer(disc))
         IN  IF LengthMismatch(st.len, discLength)
             THEN [st EXCEPT !.dl = dl, !.ixd = ixd, !.threw = TRUE]
             ELSE [st EXCEPT !.dl = dl, !.ixd = ixd,
                             !.len = Num(discLength)]

RECURSIVE ConstructorLoop(_, _)
ConstructorLoop(st, instructions) ==
    IF instructions = <<>> THEN st
    ELSE ConstructorLoop(ConstructorStep(st, instructions[1]),
                         Tail(instructions))

\* the constructor run on a schema whose layouts compile
ConstructorRun(schema) ==
    ConstructorLoop([layouts |-> parseIxLayout(schema), dl |-> <<>>,
                     ixd |-> <<>>, len |-> Undefined, threw |-> FALSE],
                    schema.instructions)

\* results of the public calls
Threw(msg) == [error |-> msg]
ReturnedBytes(b) == [bytes |-> b]
ReturnedInstruction(name, data) == [name |-> name, data |-> data]
ReturnedDisplay(args, accounts) == [args |-> args, accounts |-> accounts]

IsError(r) == "error" \in DOMAIN r
IsBytes(r) == "bytes" \in DOMAIN r
IsInstruction(r) == "name" \in DOMAIN r
IsDisplay(r) == "accounts" \in DOMAIN r

\* _encode(SIGHASH_GLOBAL_NAMESPACE, ixName, ix)
encode(layouts, discriminators, ixName, ix) ==
    LET methodName == camelCase(ixName)
        layout == MapGet(layouts, methodName)
        discriminator == MapGet(discriminators, methodName)
    IN  IF layout = Undefined \/ discriminator = Undefined
        THEN Threw("Unknown method")
        ELSE ReturnedBytes(discriminator.buf
                           \o LayoutEncode(layout.fields, ix))

\* decode without the early return on an unknown discriminator
decodeNoMissReturn(dl, discLength, ix) ==
    LET sh == bs58encode(subarray(ix, Num(0), discLength))
        data == subarray(ix, discLength, Undefined)
        decoder == MapGet(dl, sh)
    IN  IF decoder = Undefined \/ decoder.layout = Undefined
        THEN Threw("TypeError: layout is undefined")
        ELSE LET r == LayoutDecode(decoder.layout.fields, data, <<>>)
             IN  IF r.ok THEN ReturnedInstruction(decoder.name, r.val)
                 ELSE Threw("RangeError: malformed body")

\* decode that looks the discriminator up in a buffer zero-padded to the
\* discriminator length
decodePadded(dl, discLength, ix) ==
    LET n == IF discLength = Undefined THEN Len(ix) ELSE discLength.num
        prefix == [i \in 1..n |-> IF i <= Len(ix) THEN ix[i] ELSE 0]
        sh == bs58encode(IF Len(ix) < n THEN prefix
                         ELSE subarray(ix, Num(0), discLength))
        data == subarray(ix, discLength, Undefined)
        decoder == MapGet(dl, sh)
    IN  IF decoder = Undefined THEN Null
        ELSE IF decoder.layout = Undefined
        THEN Threw("TypeError: layout is undefined")
        ELSE LET r == LayoutDecode(decoder.layout.fields, data, <<>>)
             IN  IF r.ok THEN ReturnedInstruction(decoder.name, r.val)
                 ELSE Threw("RangeError: malformed body")

\* decode(ix) of a raw buffer
decode(dl, discLength, ix) ==
    LET sh == bs58encode(subarray(ix, Num(0), discLength))
        data == subarray(ix, discLength, Undefined)
        decoder == MapGet(dl, sh)
    IN  IF decoder = Undefined THEN Null
        ELSE IF decoder.layout = Undefined
        THEN Threw("TypeError: layout is undefined")
        ELSE LET r == LayoutDecode(decoder.layout.fields, data, <<>>)
             IN  IF r.ok THEN ReturnedInstruction(decoder.name, r.val)
                 ELSE Threw("RangeError: malformed body")

----------------------------------------------------------------------------
(* InstructionFormatter *)

Text(t) == [text |-> t]

\* `${x}` of a type reference: a string is itself, an object is
\* "[object Object]"
TemplateOfType(T) == IF IsPrim(T) THEN T.prim ELSE "[object Object]"

RECURSIVE formatIdlType(_)
formatIdlType(idlType) ==
    IF IsPrim(idlType) THEN idlType.prim
    ELSE IF IsVec(idlType) THEN "Vec<" \o formatIdlType(idlType.vec) \o ">"
    ELSE IF IsOption(idlType)
    THEN "Option<" \o formatIdlType(idlType.option) \o ">"
    ELSE IF IsDefined(idlType) THEN idlType.defined
    ELSE "Array<" \o TemplateOfType(idlType.array) \o "; "
         \o NumberToString(idlType.len) \o ">"

\* key is the canonical text of an array index
IsIndexKey(key) ==
    /\ key # <<>>
    /\ \A i \in 1..Len(key) : \E d \in 1..10 : DigitText[d] = key[i]
    /\ Len(key) > 1 => key[1] # "0"

\* variants[variant]?.filter(...)[0] for a property key of the variants
\* array and a field name f: an array has no property named after a
\* variant, so the result is undefined; an index or "length" key yields a
\* value without a filter method
FindVariantField(variants, variant, f) ==
    IF IsIndexKey(variant) \/ Str(variant) = "length"
    THEN Threw("TypeError: filter is not a function")
    ELSE Undefined

RECURSIVE formatIdlData(_, _, _)
RECURSIVE formatIdlDataDefined(_, _, _)
RECURSIVE FormatElements(_, _, _)
RECURSIVE FormatStructKeys(_, _, _, _, _)
RECURSIVE FormatVariantKeys(_, _, _, _, _, _)

\* formatIdlData(idlField, data, types) for idlField.type = T; types is
\* Undefined or [arr |-> type definitions]; the result is Text or Threw
formatIdlData(T, data, types) ==
    IF IsPrim(T)
    THEN IF data = Undefined \/ data = Null
         THEN Threw("TypeError: cannot read toString")
         ELSE Text(NumberToString(data.num))
    ELSE IF IsVec(T)
    THEN LET elems == FormatElements(T.vec, data.arr, <<>>)
         IN  IF IsError(elems) THEN elems
             ELSE Text("[" \o JoinText(elems.arr, ", ") \o "]")
    ELSE IF IsOption(T)
    THEN IF data = Null THEN Text("null")
         ELSE formatIdlData(T.option, data, types)
    ELSE IF IsDefined(T)
    THEN IF types = Undefined THEN Threw("User defined types not provided")
         ELSE LET filtered == SelectSeq(types.arr,
                                        LAMBDA t : t.name = T.defined)
              IN  IF Len(filtered) # 1 THEN Threw("Type not found")
                  ELSE formatIdlDataDefined(filtered[1], data, types)
    ELSE Text("unknown")

\* data.map((d) => this.formatIdlData({name: "", type: vec}, d)): the
\* recursive call passes no types
FormatElements(T, elems, acc) ==
    IF elems = <<>> THEN Arr(acc)
    ELSE LET r == formatIdlData(T, elems[1], Undefined)
         IN  IF IsError(r) THEN r
             ELSE FormatElements(T, Tail(elems), Append(acc, r.text))

\* the "k: value" texts of the keys of a struct value
FormatStructKeys(fields, data, keys, types, acc) ==
    IF keys = <<>> THEN Arr(acc)
    ELSE LET k == keys[1]
             fs == SelectSeq(fields, LAMBDA f : f.name = k)
         IN  IF fs = <<>> THEN Threw("Unable to find type")
             ELSE LET r == formatIdlData(fs[1].type, ObjectGet(data, k),
                                         types)
                  IN  IF IsError(r) THEN r
                      ELSE FormatStructKeys(fields, data, Tail(keys), types,
                               Append(acc, Str(k) \o ": " \o r.text))

\* the "f: value" texts of the keys of the fields object of an enum value
FormatVariantKeys(variants, variant, enumType, keys, types, acc) ==
    IF keys = <<>> THEN Arr(acc)
    ELSE LET f == keys[1]
             idlField == FindVariantField(variants, variant, f)
         IN  IF idlField = Undefined THEN Threw("Unable to find variant")
             ELSE IF IsError(idlField) THEN idlField
             ELSE LET r == formatIdlData(idlField.type,
                                         ObjectGet(enumType, f), types)
                  IN  IF IsError(r) THEN r
                      ELSE FormatVariantKeys(variants, variant, enumType,
                               Tail(keys), types,
                               Append(acc, Str(f) \o ": " \o r.text))

formatIdlDataDefined(typeDef, data, types) ==
    IF typeDef.kind = "struct"
    THEN LET fields == FormatStructKeys(typeDef.fields, data,
                                        ObjectKeys(data), types, <<>>)
         IN  IF IsError(fields) THEN fields
             ELSE Text("{ " \o JoinText(fields.arr, ", ") \o " }")
    ELSE IF Len(typeDef.variants) = 0 THEN Text("{}")
    ELSE IF typeDef.variants[1].name # <<>>
    THEN LET variant == ObjectKeys(data)[1]
             enumType == ObjectGet(data, variant)
             named == FormatVariantKeys(typeDef.variants, variant, enumType,
                                        ObjectKeys(enumType), types, <<>>)
         IN  IF IsError(named) THEN named
             ELSE LET namedFields == JoinText(named.arr, ", ")
                      variantName == Str(camelCaseOpt(variant, TRUE))
                  IN  IF namedFields = "" THEN Text(variantName)
                      ELSE Text(variantName \o " { " \o namedFields \o " }")
    ELSE Text("Tuple formatting not yet implemented")

\* account items: a leaf [name |-> n] or a group [name |-> n, accounts |-> s]
AccountLeaf(name) == [name |-> name]
AccountGroup(name, accounts) == [name |-> name, accounts |-> accounts]

RECURSIVE flattenIdlAccounts(_, _)
\* the display names of the leaves; prefix "" stands for no prefix (an
\* empty prefix is falsy in the code)
flattenIdlAccounts(accounts, prefix) ==
    IF accounts = <<>> THEN <<>>
    ELSE LET account == accounts[1]
             accName == Str(sentenceCase(account.name))
             named == IF prefix # "" THEN prefix \o " > " \o accName
                      ELSE accName
         IN  (IF "accounts" \in DOMAIN account
              THEN flattenIdlAccounts(account.accounts, named)
              ELSE <<[name |-> named]>>)
             \o flattenIdlAccounts(Tail(accounts), prefix)

\* the bound of the name lookup off by one
AccountNameOffByOne(flatIdlAccounts, idx) ==
    IF idx < Len(flatIdlAccounts) THEN Text(flatIdlAccounts[idx].name)
    ELSE Undefined

\* the name given to the account at index idx (from 1)
AccountName(flatIdlAccounts, idx) ==
    IF idx <= Len(flatIdlAccounts) THEN Text(flatIdlAccounts[idx].name)
    ELSE Undefined

RECURSIVE FormatArgs(_, _, _, _)
\* idlIx.args.map(...): the args of the display, or Threw
FormatArgs(fields, data, types, acc) ==
    IF fields = <<>> THEN Arr(acc)
    ELSE LET r == formatIdlData(fields[1].type,
                                ObjectGet(data, fields[1].name), types)
         IN  IF IsError(r) THEN r
             ELSE FormatArgs(Tail(fields), data, types,
                      Append(acc, [name |-> fields[1].name,
                                   type |-> formatIdlType(fields[1].type),
                                   data |-> r.text]))

\* InstructionFormatter.format(ix, accountMetas, idl)
format(ix, accountMetas, schema) ==
    LET found == SelectSeq(schema.instructions, LAMBDA i : ix.name = i.name)
    IN  IF found = <<>> THEN Null
        ELSE LET idlIx == found[1]
                 args == FormatArgs(idlIx.args, ix.data, schema.types, <<>>)
                 flatIdlAccounts == flattenIdlAccounts(idlIx.accounts, "")
                 accounts ==
                     [idx \in 1..Len(accountMetas) |->
                         [name |-> AccountName(flatIdlAccounts, idx),
                          pubkey |-> accountMetas[idx].pubkey,
                          isSigner |-> accountMetas[idx].isSigner,
                          isWritable |-> accountMetas[idx].isWritable]]
             IN  IF IsError(args) THEN args
                 ELSE ReturnedDisplay(args.arr, accounts)

----------------------------------------------------------------------------
(* Values matching a type *)

MaxVecLen == 2

U8Samples == {0, 42}

StructDef(name, fields) == [name |-> name, kind |-> "struct", fields |-> fields]
EnumDef(name, variants) == [name |-> name, kind |-> "enum", variants |-> variants]
Variant(name, fields) == [name |-> name, fields |-> fields]

TypeDefOf(name, types) ==
    types[CHOOSE i \in 1..Len(types) : types[i].name = name]

RECURSIVE ValuesOf(_, _)
RECURSIVE ObjectsFor(_, _)
\* the decoded values of type T
ValuesOf(T, types) ==
    IF IsPrim(T) THEN {Num(n) : n \in U8Samples}
    ELSE IF IsOption(T) THEN {Null} \cup ValuesOf(T.option, types)
    ELSE IF IsVec(T)
    THEN {Arr(e) : e \in UNION {[1..n -> ValuesOf(T.vec, types)] :
                                 n \in 0..MaxVecLen}}
    ELSE IF IsArray(T)
    THEN {Arr(e) : e \in [1..T.len -> ValuesOf(T.array, types)]}
    ELSE LET def == TypeDefOf(T.defined, types)
         IN  IF def.kind = "struct" THEN ObjectsFor(def.fields, types)
             ELSE UNION {
                 {Obj(<<[k |-> camelCase(def.variants[i].name), v |-> o]>>) :
                      o \in ObjectsFor(def.variants[i].fields, types)} :
                 i \in 1..Len(def.variants)}

\* the objects with one value per field, keys in field order
ObjectsFor(fields, types) ==
    IF fields = <<>> THEN {Obj(<<>>)}
    ELSE {Obj(<<[k |-> fields[1].name, v |-> x]>> \o rest.obj) :
              x \in ValuesOf(fields[1].type, types),
              rest \in ObjectsFor(Tail(fields), types)}

----------------------------------------------------------------------------
(* Schemas and inputs of the codec specification *)

MaxIx == 2

NameGo == <<"g", "o">>
NameDoIt == <<"d", "o", "I", "t">>
NameDo_it == <<"d", "o", "_", "i", "t">>

IxNames == {NameGo, NameDoIt, NameDo_it}

\* absent, empty, one zero byte, two bytes
Discriminants ==
    {Undefined, Discriminant(<<>>), Discriminant(<<0>>),
     Discriminant(<<7, 1>>)}

ArgSets == {<<>>, <<Field(<<"o">>, Option(Prim("u8")))>>}

SeqsUpTo(S, n) == UNION {[1..k -> S] : k \in 0..n}

\* schemas of up to MaxIx instructions with pairwise different names; the
\* instructions of one schema take the same arguments
CodecSchemas ==
    {[instructions |->
          [i \in 1..Len(heads) |->
              IdlInstruction(heads[i][1], heads[i][2], args, <<>>)],
      types |-> Undefined] :
         heads \in {h \in SeqsUpTo(IxNames \X Discriminants, MaxIx) :
                       \A i, j \in 1..Len(h) :
                           i # j => h[i][1] # h[j][1]},
         args \in ArgSets}

ShGo == <<200, 2, 253, 91, 253, 62, 157, 66>>
ShDoIt == <<220, 100, 3, 140, 58, 153, 21, 93>>

\* raw buffers handed to decode that no encode call produced: empty, short,
\* foreign, and known discriminators followed by well- and ill-formed bodies
ForeignBuffers ==
    {<<>>, <<0>>, <<0, 0>>, <<0, 1>>, <<0, 1, 42>>, <<1, 42>>, <<2>>, <<7>>,
     <<7, 1>>, <<7, 1, 0>>, <<7, 1, 1>>, <<7, 1, 2>>, <<7, 1, 1, 42>>,
     SubSeq(ShGo, 1, 4), ShGo, ShGo \o <<1>>, ShDoIt, ShDoIt \o <<1, 42>>,
     <<9, 9, 9, 9, 9, 9, 9, 9, 9>>}

NoCall == [op |-> "none"]

----------------------------------------------------------------------------
(* The state machine *)

InitTables ==
    /\ constructed = "no"
    /\ ixLayout = <<>>
    /\ discriminatorLayouts = <<>>
    /\ ixDiscriminator = <<>>
    /\ discriminatorLength = Undefined
    /\ call = NoCall
    /\ ret = Undefined

Init ==
    /\ idl \in CodecSchemas
    /\ InitTables

\* new BorshInstructionCoder(idl)
Construct ==
    /\ constructed = "no"
    /\ call' = [op |-> "new"]
    /\ IF ~LayoutsCompile(idl)
       THEN /\ constructed' = "failed"
            /\ ret' = Threw("Type not found")
            /\ UNCHANGED <<ixLayout, discriminatorLayouts, ixDiscriminator,
                           discriminatorLength>>
       ELSE LET st == ConstructorRun(idl)
            IN  IF st.threw
                THEN /\ constructed' = "failed"
                     /\ ret' = Threw("All instructions must have the same discriminator length")
                     /\ UNCHANGED <<ixLayout, discriminatorLayouts,
                                    ixDiscriminator, discriminatorLength>>
                ELSE /\ constructed' = "ok"
                     /\ ret' = Undefined
                     /\ ixLayout' = st.layouts
                     /\ discriminatorLayouts' = st.dl
                     /\ ixDiscriminator' = st.ixd
                     /\ discriminatorLength' = st.len
    /\ UNCHANGED idl

\* the argument objects a caller passes with ixName: those matching the
\* arguments of an instruction the name stands for, the empty object when
\* the schema has none
ArgObjects(ixName) ==
    LET defs == {i \in 1..Len(idl.instructions) :
                     camelCase(idl.instructions[i].name) = camelCase(ixName)}
    IN  IF defs = {} THEN {Obj(<<>>)}
        ELSE UNION {ObjectsFor(idl.instructions[i].args,
                               TypesOrEmpty(idl.types)) : i \in defs}

\* coder.encode(ixName, ix)
Encode(ixName, ix) ==
    /\ constructed = "ok"
    /\ call' = [op |-> "encode", ixName |-> ixName, ix |-> ix]
    /\ ret' = encode(ixLayout, ixDiscriminator, ixName, ix)
    /\ UNCHANGED <<idl, constructed, ixLayout, discriminatorLayouts,
                   ixDiscriminator, discriminatorLength>>

\* coder.decode(ix) of a raw buffer; sent is the encode call that produced
\* the buffer, or NoCall for a foreign buffer
Decode(ix, sent) ==
    /\ constructed = "ok"
    /\ call' = [op |-> "decode", ix |-> Buffer(ix), sent |-> sent]
    /\ ret' = decode(discriminatorLayouts, discriminatorLength, ix)
    /\ UNCHANGED <<idl, constructed, ixLayout, discriminatorLayouts,
                   ixDiscriminator, discriminatorLength>>

DecodeForeign ==
    /\ constructed = "ok"
    /\ \E b \in ForeignBuffers : Decode(b, NoCall)

DecodeEncoded ==
    /\ call.op = "encode"
    /\ IsBytes(ret)
    /\ Decode(ret.bytes, call)

EncodeAny ==
    /\ constructed = "ok"
    /\ \E n \in IxNames : \E v \in ArgObjects(n) : Encode(n, v)

Next == Construct \/ EncodeAny \/ DecodeForeign \/ DecodeEncoded

Spec == Init /\ [][Next]_vars

----------------------------------------------------------------------------
(* Schemas and inputs of the formatter specification *)

MaxMetas == 4

NameA == <<"a">>
NameProgress == <<"p", "r", "o", "g", "r", "e", "s", "s">>
NameIdle == <<"I", "d", "l", "e">>
NameRunning == <<"R", "u", "n", "n", "i", "n", "g">>
NameX == <<"x">>
NameAuthority == <<"a", "u", "t", "h", "o", "r", "i", "t", "y">>
NameOwner == <<"o", "w", "n", "e", "r">>
NamePayer == <<"p", "a", "y", "e", "r">>
NameSystemProgram ==
    <<"s", "y", "s", "t", "e", "m", "P", "r", "o", "g", "r", "a", "m">>
NameVault == <<"v", "a", "u", "l", "t">>

\* enum Status { Idle, Running { progress: u8 } }; struct Point { x: u8 }
StatusDef ==
    EnumDef("Status", <<Variant(NameIdle, <<>>),
                        Variant(NameRunning,
                                <<Field(NameProgress, Prim("u8"))>>)>>)
PointDef == StructDef("Point", <<Field(NameX, Prim("u8"))>>)

TypeDefs == <<StatusDef, PointDef>>

FormatTypes ==
    {Prim("u8"), Vec(Prim("u8")), Option(Prim("u8")), Defined("Status"),
     Defined("Point"), Vec(Defined("Status")), Option(Defined("Status")),
     Vec(Option(Prim("u8"))), Array(Prim("u8"), 2),
     Array(Option(Prim("u8")), 2), Option(Array(Vec(Prim("u8")), 1))}

\* account trees: none, one leaf, the groups of the specification's
\* example, and a group nested in a group next to an empty group
AccountTrees ==
    {<<>>,
     <<AccountLeaf(NameSystemProgram)>>,
     <<AccountGroup(NameAuthority,
                    <<AccountLeaf(NameOwner), AccountLeaf(NamePayer)>>),
       AccountLeaf(NameSystemProgram)>>,
     <<AccountLeaf(NamePayer),
       AccountGroup(NameVault, <<AccountLeaf(NameSystemProgram)>>),
       AccountLeaf(NameOwner), AccountLeaf(NameAuthority),
       AccountLeaf(NameVault)>>,
     <<AccountGroup(NameVault,
                    <<AccountGroup(NameAuthority, <<AccountLeaf(NameOwner)>>),
                      AccountLeaf(NamePayer)>>),
       AccountGroup(NameAuthority, <<>>),
       AccountLeaf(NameSystemProgram)>>}

ExampleTree ==
    <<AccountGroup(NameAuthority,
                   <<AccountLeaf(NameOwner), AccountLeaf(NamePayer)>>),
      AccountLeaf(NameSystemProgram)>>

\* one instruction "go": with one argument "a" of each type over the
\* example's accounts, and without arguments over each account tree; with
\* and without a type table
FormatSchemas ==
    {[instructions |-> <<IdlInstruction(NameGo, Undefined, shape[1],
                                        shape[2])>>,
      types |-> types] :
         shape \in {<<<<Field(NameA, T)>>, ExampleTree>> : T \in FormatTypes}
                   \cup {<<<<>>, tree>> : tree \in AccountTrees},
         types \in {Undefined, Arr(TypeDefs)}}

\* n runtime account metas, pairwise distinct (pubkey i stands for the
\* i-th public key)
MetaList(n) ==
    [i \in 1..n |-> [pubkey |-> i, isSigner |-> (i % 2 = 1),
                     isWritable |-> (i % 3 = 0)]]

MetaLists == {MetaList(n) : n \in 0..MaxMetas}

\* the decoded instructions handed to format: every instruction of the
\* schema with every value of its arguments, and one the schema lacks
FormatInputs ==
    UNION {{ReturnedInstruction(idl.instructions[i].name, data) :
                data \in ObjectsFor(idl.instructions[i].args,
                                    TypesOrEmpty(idl.types))} :
           i \in 1..Len(idl.instructions)}
    \cup {ReturnedInstruction(NameDoIt, Obj(<<>>))}

InitFormat ==
    /\ idl \in FormatSchemas
    /\ InitTables

\* coder.format(ix, accountMetas)
Format(ix, accountMetas) ==
    /\ constructed = "ok"
    /\ call' = [op |-> "format", ix |-> ix, accountMetas |-> accountMetas]
    /\ ret' = format(ix, accountMetas, idl)
    /\ UNCHANGED <<idl, constructed, ixLayout, discriminatorLayouts,
                   ixDiscriminator, discriminatorLength>>

FormatAny ==
    /\ constructed = "ok"
    /\ \E ix \in FormatInputs : \E m \in MetaLists : Format(ix, m)

NextFormat == Construct \/ FormatAny

SpecFormat == InitFormat /\ [][NextFormat]_vars

----------------------------------------------------------------------------
(* Properties of the codec (specification Spec) *)

\* the schema has an instruction named name
NamedInSchema(name) ==
    \E i \in 1..Len(idl.instructions) : idl.instructions[i].name = name

\* no instruction of the schema has the discriminator bytes b
NoDiscriminatorIs(b) ==
    \A i \in 1..Len(idl.instructions) :
        DiscriminatorOf(idl.instructions[i]) # b

\* C1: round trip. encode(ix.name, v) of an instruction of the schema and
\* a value matching its arguments returns bytes, and decode of those bytes
\* returns {name: ix.name, data: v}.
C1_RoundTrip ==
    /\ (call.op = "encode" /\ NamedInSchema(call.ixName)) => IsBytes(ret)
    /\ (/\ call.op = "decode"
        /\ call.sent.op = "encode"
        /\ NamedInSchema(call.sent.ixName))
           => ret = ReturnedInstruction(call.sent.ixName, call.sent.ix)

\* C2: length invariant. No codec is constructed from a schema whose
\* instructions have discriminators of different byte lengths.
C2_LengthInvariant ==
    constructed = "ok" =>
        \A i, j \in 1..Len(idl.instructions) :
            DiscriminatorLengthOf(idl.instructions[i])
                = DiscriminatorLengthOf(idl.instructions[j])

\* C3: discriminator uniqueness partition. The decode table of a
\* constructed codec holds one key per instruction of the schema, and a
\* buffer encoded for instruction I is decoded as instruction I.
C3_UniquenessPartition ==
    constructed = "ok" =>
        /\ Len(discriminatorLayouts) = Len(idl.instructions)
        /\ (/\ call.op = "decode"
            /\ call.sent.op = "encode"
            /\ NamedInSchema(call.sent.ixName)
            /\ IsInstruction(ret))
               => ret.name = call.sent.ixName

\* C4: not-recognized result. decode of a raw buffer, the empty one
\* included, whose first discriminatorLength bytes are the discriminator
\* of no instruction returns null and raises no error.
C4_NotRecognized ==
    (/\ call.op = "decode"
     /\ NoDiscriminatorIs(subarray(call.ix.buf, Num(0), discriminatorLength)))
        => ret = Null

\* decode returned null for the empty buffer and for a foreign buffer
\* longer than the discriminators of a two-instruction codec
C4_Witness ==
    /\ call.op = "decode"
    /\ call.ix.buf \in {<<>>, <<9, 9, 9, 9, 9, 9, 9, 9, 9>>}
    /\ Len(idl.instructions) = 2
    /\ TruthyNumber(discriminatorLength)
    /\ NoDiscriminatorIs(subarray(call.ix.buf, Num(0), discriminatorLength))
    /\ ret = Null

\* the buffer of the last decode call is shorter than a discriminator
\* length L > 0
ShortBufferDecoded ==
    /\ constructed = "ok"
    /\ call.op = "decode"
    /\ TruthyNumber(discriminatorLength)
    /\ Len(call.ix.buf) < discriminatorLength.num

\* C5 as stated: decode of a buffer shorter than the discriminator length
\* L > 0 ends in a malformed-input error and not in null.
C5_ShortBufferIsError ==
    ShortBufferDecoded => IsError(ret)

\* C5 as amended: decode of a buffer shorter than the discriminator length
\* L > 0 returns null and raises no error, unless the buffer is itself the
\* whole discriminator of an instruction.
C5_ShortBufferNotRecognized ==
    (ShortBufferDecoded /\ NoDiscriminatorIs(call.ix.buf)) => ret = Null

\* decode returned null for the first four bytes of an 8-byte discriminator
\* of the codec
C5_Witness ==
    /\ ShortBufferDecoded
    /\ discriminatorLength = Num(8)
    /\ call.ix.buf = SubSeq(ShGo, 1, 4)
    /\ \E i \in 1..Len(idl.instructions) :
           DiscriminatorOf(idl.instructions[i]) = ShGo
    /\ ret = Null

\* C10: table consistency. After construction, for every instruction the
\* decode-table entry under its discriminator carries the layout compiled
\* for its arguments, and both name-keyed tables have an entry under the
\* name encode looks up.
C10_TableConsistency ==
    constructed = "ok" =>
        \A i \in 1..Len(idl.instructions) :
            LET ix == idl.instructions[i]
                entry == MapGet(discriminatorLayouts,
                                bs58encode(DiscriminatorOf(ix)))
            IN  /\ entry # Undefined
                /\ entry.layout = StructLayout(ix.args, camelCase(ix.name))
                /\ MapHas(ixLayout, camelCase(ix.name))
                /\ MapHas(ixDiscriminator, camelCase(ix.name))

----------------------------------------------------------------------------
(* Properties of the formatter (specification SpecFormat) *)

\* the last call formatted an instruction the schema defines
FormattedKnown ==
    /\ call.op = "format"
    /\ NamedInSchema(call.ix.name)

\* the definition of the instruction of the last format call
FormattedIx ==
    idl.instructions[CHOOSE i \in 1..Len(idl.instructions) :
                         idl.instructions[i].name = call.ix.name]

RECURSIVE RefLabel(_)
\* the type label of section 4.4
RefLabel(T) ==
    IF IsPrim(T) THEN T.prim
    ELSE IF IsVec(T) THEN "Vec<" \o RefLabel(T.vec) \o ">"
    ELSE IF IsOption(T) THEN "Option<" \o RefLabel(T.option) \o ">"
    ELSE IF IsDefined(T) THEN T.defined
    ELSE "Array<" \o RefLabel(T.array) \o "; " \o NumberToString(T.len)
         \o ">"

RECURSIVE RefRender(_, _, _)
RECURSIVE RefRenderFields(_, _, _)
\* the value rendering of section 4.4, every level rendered against the
\* schema's type table
RefRender(T, v, types) ==
    IF IsPrim(T) THEN NumberToString(v.num)
    ELSE IF IsVec(T)
    THEN "[" \o JoinText([i \in 1..Len(v.arr) |->
                              RefRender(T.vec, v.arr[i], types)], ", ")
         \o "]"
    ELSE IF IsOption(T)
    THEN IF v = Null THEN "null" ELSE RefRender(T.option, v, types)
    ELSE IF IsDefined(T)
    THEN LET def == TypeDefOf(T.defined, types)
         IN  IF def.kind = "struct"
             THEN "{ " \o RefRenderFields(def.fields, v, types) \o " }"
             ELSE LET key == ObjectKeys(v)[1]
                      vdef == def.variants[
                                  CHOOSE i \in 1..Len(def.variants) :
                                      camelCase(def.variants[i].name) = key]
                      name == Str(camelCaseOpt(key, TRUE))
                  IN  IF vdef.fields = <<>> THEN name
                      ELSE name \o " { "
                           \o RefRenderFields(vdef.fields,
                                              ObjectGet(v, key), types)
                           \o " }"
    ELSE "unknown"

\* "field: value" of the fields, comma-joined
RefRenderFields(fields, v, types) ==
    JoinText([i \in 1..Len(fields) |->
                 Str(fields[i].name) \o ": "
                 \o RefRender(fields[i].type, ObjectGet(v, fields[i].name),
                              types)], ", ")

\* C6: enum struct-variant formatting. Formatting a value of a defined enum
\* raises no error and yields the UpperCamelCase variant name for a unit
\* variant and "VariantName { field: value, ... }" for a variant with
\* fields.
C6_EnumVariantFormatting ==
    FormattedKnown =>
        \A j \in 1..Len(FormattedIx.args) :
            LET T == FormattedIx.args[j].type
            IN  (IsDefined(T)
                 /\ TypeDefOf(T.defined, idl.types.arr).kind = "enum")
                    => /\ IsDisplay(ret)
                       /\ ret.args[j].data
                              = RefRender(T, ObjectGet(call.ix.data,
                                              FormattedIx.args[j].name),
                                          idl.types.arr)

RECURSIVE LeafPaths(_, _)
\* the leaves of an account tree, depth first in declaration order, each as
\* the sequence of its ancestors' names and its own
LeafPaths(accounts, ancestors) ==
    IF accounts = <<>> THEN <<>>
    ELSE (IF "accounts" \in DOMAIN accounts[1]
          THEN LeafPaths(accounts[1].accounts,
                         Append(ancestors, accounts[1].name))
          ELSE <<Append(ancestors, accounts[1].name)>>)
         \o LeafPaths(Tail(accounts), ancestors)

\* a camelCase identifier as capitalized words: first letter upper-cased, a
\* space before every later capital
SpacedCapitalized(name) ==
    JoinText([i \in 1..Len(name) |->
                 IF i = 1 THEN toUpperCase(name[i])
                 ELSE IF IsUpperChar(name[i]) THEN " " \o name[i]
                 ELSE name[i]], "")

PathName(path) ==
    JoinText([i \in 1..Len(path) |-> SpacedCapitalized(path[i])], " > ")

C8_TypeLabel ==
    (FormattedKnown /\ IsDisplay(ret)) =>
        \A j \in 1..Len(FormattedIx.args) :
            ret.args[j].type = RefLabel(FormattedIx.args[j].type)

\* C9: vector value rendering. Formatting an argument of type vector(T)
\* raises no error and yields "[" + the elements, each rendered as a
\* top-level value of type T against the schema's type table, joined by
\* ", " + "]".
C9_VectorRendering ==
    FormattedKnown =>
        \A j \in 1..Len(FormattedIx.args) :
            LET T == FormattedIx.args[j].type
                v == ObjectGet(call.ix.data, FormattedIx.args[j].name)
            IN  IsVec(T)
                    => /\ IsDisplay(ret)
                       /\ ret.args[j].data
                              = "[" \o JoinText(
                                    [i \in 1..Len(v.arr) |->
                                        RefRender(T.vec, v.arr[i],
                                                  TypesOrEmpty(idl.types))],
                                    ", ") \o "]"

====
